---- MODULE Spec2Model ----
(***************************************************************************)
(* Model of epengine/workflows/simulate.py: the `simulate` workflow step,  *)
(* the index builder `_generate_index_data`, the diagnostics extraction    *)
(* `_generate_error_warning_counts_df` and the design-day merger           *)
(* `add_sizing_design_day`.                                                *)
(*                                                                         *)
(* Python values are encoded as follows.                                   *)
(*   dict            a sequence of <<key, value>> pairs (insertion order)  *)
(*   None            the string None                                       *)
(*   DataFrame       [names, index, columns, data]                         *)
(*   str (file name) a sequence of one-character strings                   *)
(*   summary text    a sequence of tokens: a digit, " ", "\n", "x" (any    *)
(*                   other character) or one of the two literal words      *)
(***************************************************************************)
EXTENDS Integers, Sequences, FiniteSets, TLC

VARIABLES
    \* ---- the simulate step
    pc,        \* position of the attempt in Simulate.simulate
    spec,      \* SimulationSpec fields in declared order: <<name, value>>
    runId,     \* what hcontext.workflow_run_id() returns
    ddyFile,   \* state of the file behind spec.ddy_path: "ok" | "malformed"
    attempt,   \* number of retries the scheduler has made so far
    tmpdir,    \* the TemporaryDirectory: "none" | "held" | "released"
    injected,  \* design days injected into the primary document
    outcome,   \* "none" | "success" | "failure" of idf.simulate()
    exc,       \* the exception bound to `e` at line 87
    endFile,   \* eplusout.end as left by the engine: [exists, text]
    dfs,       \* the local dict `dfs`: table name -> DataFrame
    result,    \* the value returned by the step
    fault,     \* the exception that left the step ("" when none)
    \* ---- _generate_error_warning_counts_df on its own
    dpc,       \* "idle" | "start" | "done" | "raised"
    end_file,  \* the file idf.simulation_dir / "eplusout.end": [exists, text]
    err_df,    \* the frame the call returned (<<>> before it returns)
    \* ---- add_sizing_design_day
    mpc,       \* "idle" | "start" | "loop" | "done" | "raised"
    ddyOk,     \* whether IDF(ddy_file) parses
    ddy,       \* secondary document: objtype -> sequence of objects
    idf,       \* primary document: objtype -> sequence of objects
    idf0,      \* the primary document as it was before the call
    cur        \* loop position <<category number, object number>>

simVars   == <<pc, spec, runId, ddyFile, attempt, tmpdir, injected, outcome,
               exc, endFile, dfs, result, fault>>
diagVars  == <<dpc, end_file, err_df>>
mergeVars == <<mpc, ddyOk, ddy, idf, idf0, cur>>
vars      == <<simVars, diagVars, mergeVars>>

---------------------------------------------------------------------------
(* Bounds of the model *)

MaxMeta    == 2   \* metadata fields carried by a spec
MaxParts   == 4   \* parts a summary text is put together from
MaxObjs    == 2   \* objects per category in a document

None == "None"

---------------------------------------------------------------------------
(* Python dict and str primitives used by the code *)

Keys(d)   == [i \in 1..Len(d) |-> d[i][1]]
Values(d) == [i \in 1..Len(d) |-> d[i][2]]
HasKey(d, k) == \E i \in 1..Len(d) : d[i][1] = k

\* d[k] = v : overwrite in place when k is present, else append
DictSet(d, k, v) ==
    IF HasKey(d, k)
    THEN [i \in 1..Len(d) |-> IF d[i][1] = k THEN <<k, v>> ELSE d[i]]
    ELSE Append(d, <<k, v>>)

\* f[k] = v on a name -> table mapping
Put(f, k, v) == [n \in (DOMAIN f) \cup {k} |-> IF n = k THEN v ELSE f[n]]

EndsWith(s, suffix) ==
    /\ Len(s) >= Len(suffix)
    /\ SubSeq(s, Len(s) - Len(suffix) + 1, Len(s)) = suffix

---------------------------------------------------------------------------
(* Index builder *)

\* spec.model_dump(mode="json", exclude_none=True)
model_dump(s) == SelectSeq(s, LAMBDA kv : kv[2] # None)

RunIdKey == "workflow_run_id"

generate_index_data_KeepNone(s, rid) == DictSet(s, RunIdKey, rid)

generate_index_data(s, rid) == DictSet(model_dump(s), RunIdKey, rid)

\* pd.MultiIndex.from_tuples([tuple(index_data.values())],
\*                           names=list(index_data.keys())) under a one-row frame
DataFrame(columns, row, index_data) ==
    [names   |-> Keys(index_data),
     index   |-> <<Values(index_data)>>,
     columns |-> columns,
     data    |-> <<row>>]

---------------------------------------------------------------------------
(* Diagnostics extraction: re.match of the two patterns on the summary text *)

SevereKw  == "Severe Errors"
WarningKw == "Warning"
Digits    == {"3", "7"}
Tokens    == Digits \cup {" ", "\n", "x", SevereKw, WarningKw}

IsSpace(c) == c \in {" ", "\n"}         \* \s
IsDigit(c) == c \in Digits              \* \d
DigitVal(c) == IF c = "3" THEN 3 ELSE 7

RECURSIVE int(_)
int(ds) ==
    IF ds = <<>> THEN 0
    ELSE 10 * int(SubSeq(ds, 1, Len(ds) - 1)) + DigitVal(ds[Len(ds)])

\* The pattern  .*\s(\d+)\s<kw>.*  applied by re.match (anchored at the first
\* character; "." does not match "\n", "\s" does).  A match is a pair <<k, m>>:
\* ".*" takes text[1..k-1], "\s" takes text[k], the group takes text[k+1..m],
\* "\s" takes text[m+1] and the literal takes text[m+2].
Matches(text, kw) ==
    {km \in (1..Len(text)) \X (1..Len(text)) :
        /\ \A i \in 1..(km[1] - 1) : text[i] # "\n"
        /\ IsSpace(text[km[1]])
        /\ km[2] > km[1]
        /\ \A i \in (km[1] + 1)..km[2] : IsDigit(text[i])
        /\ km[2] + 2 <= Len(text)
        /\ IsSpace(text[km[2] + 1])
        /\ text[km[2] + 2] = kw}

\* groups()[0] of the match the greedy ".*" settles on (the largest k)
Group(text, ms) ==
    LET km == CHOOSE a \in ms : \A b \in ms : b[1] <= a[1]
    IN  SubSeq(text, km[1] + 1, km[2])

Count(text, kw) ==
    LET ms == Matches(text, kw)
    IN  IF ms # {} THEN int(Group(text, ms)) ELSE 0

severe_ct(text)  == Count(text, SevereKw)
warning_ct(text) == Count(text, WarningKw)

generate_error_warning_counts_df(text, index_data) ==
    DataFrame(<<"warnings", "severe">>,
              <<warning_ct(text), severe_ct(text)>>, index_data)

---------------------------------------------------------------------------
(* The simulate step *)

Retries == 2

DesignDays == <<"Ann Clg .4% Condns DB=>MWB", "Ann Htg 99.6% Condns DB">>

Field(s, k) == IF HasKey(s, k)
               THEN (CHOOSE kv \in {s[i] : i \in 1..Len(s)} : kv[1] = k)[2]
               ELSE None

\* Exceptions idf.simulate() may raise, as [cls, args]
Exceptions ==
    [cls : {"EnergyPlusProcessError", "KeyError"}, args : {<<>>, <<"boom">>}]

NoExc == [cls |-> "", args |-> <<>>]

\* str(e) of a Python exception: "" without arguments, the argument when there
\* is one; KeyError shows the repr of its argument
Str(e) ==
    IF e.args = <<>> THEN ""
    ELSE IF e.cls = "KeyError" THEN "'" \o e.args[1] \o "'"
    ELSE e.args[1]

\* tempfile.TemporaryDirectory as a context manager
TemporaryDirectory_enter == "held"
TemporaryDirectory_exit_Leak(t) == t
TemporaryDirectory_exit(t) == "released"

PerfTableName == "AnnualBuildingUtilityPerformanceSummary_End_Uses"
PerfColumns   == <<"Electricity", "Natural Gas", "Fuel Oil No 2">>

\* epengine.utils.results.postprocess: one table per tabular lookup, each row
\* indexed by index_data
postprocess(index_data) ==
    Put(<<>>, PerfTableName,
        DataFrame(PerfColumns, <<"kWh-e", "kWh-g", "kWh-o">>, index_data))

\* epengine.utils.results.serialize_df_dict: every table to its payload,
\* names kept
serialize_df_dict(d) ==
    [n \in DOMAIN d |->
        [index_names |-> d[n].names, index   |-> d[n].index,
         columns     |-> d[n].columns, data  |-> d[n].data]]

CountsTableName_Short == "message_counts"
CountsTableName == "energyplus_message_counts"

ErrBranch_NoIndex(e) ==
    Put(<<>>, "err", DataFrame(<<"msg">>, <<Str(e)>>, model_dump(spec)))

\* lines 91-99: the table set built by the except branch
ErrBranch(e) ==
    Put(<<>>, "err",
        DataFrame(<<"msg">>, <<Str(e)>>, generate_index_data(spec, runId)))

\* lines 103-114: the table set built by the else branch
ElseBranch(text) ==
    LET index_data == generate_index_data(spec, runId)
        counts_df  == generate_error_warning_counts_df(text, index_data)
    IN  Put(postprocess(index_data), CountsTableName, counts_df)

NoEndFile == [exists |-> FALSE, text |-> <<>>]

\* What the engine may leave as eplusout.end
EndFiles ==
    {NoEndFile} \cup
    {[exists |-> TRUE, text |-> t] : t \in
        { <<>>,
          <<"x", " ", "7", " ", WarningKw, "x", " ", "3", " ", SevereKw>>,
          <<"x", " ", "3", " ", SevereKw, "\n", "x", " ", "7", " ", WarningKw>> }}

InWith == {"entered", "loaded", "ready", "simulating", "post"}

\* the step touches nothing of the stand-alone calls modelled further down
SimOnly == UNCHANGED <<diagVars, mergeVars>>

\* lines 52-55
Enter ==
    /\ pc = "idle"
    /\ SimOnly
    /\ tmpdir' = TemporaryDirectory_enter
    /\ pc' = "entered"
    /\ UNCHANGED <<exc, spec, runId, ddyFile, attempt, injected, outcome, endFile,
                   dfs, result, fault>>

\* lines 56-62
LoadPrimary ==
    /\ pc = "entered"
    /\ SimOnly
    /\ pc' = "loaded"
    /\ UNCHANGED <<exc, spec, runId, ddyFile, attempt, tmpdir, injected, outcome,
                   endFile, dfs, result, fault>>

\* lines 64-80
InjectDDY ==
    /\ pc = "loaded"
    /\ SimOnly
    /\ IF Field(spec, "ddy_path") = None
       THEN /\ pc' = "ready"
            /\ UNCHANGED <<injected, tmpdir, fault>>
       ELSE IF ddyFile = "malformed"
       THEN /\ fault'  = "MalformedSecondary"
            /\ tmpdir' = TemporaryDirectory_exit(tmpdir)
            /\ pc'     = "raised"
            /\ UNCHANGED injected
       ELSE /\ injected' = DesignDays
            /\ pc' = "ready"
            /\ UNCHANGED <<tmpdir, fault>>
    /\ UNCHANGED <<exc, spec, runId, ddyFile, attempt, outcome, endFile, dfs, result>>

\* lines 82-85: idf.simulate() is entered
StartEngine ==
    /\ pc = "ready"
    /\ SimOnly
    /\ pc' = "simulating"
    /\ UNCHANGED <<exc, spec, runId, ddyFile, attempt, tmpdir, injected, outcome,
                   endFile, dfs, result, fault>>

EngineFail_Reraise(e) ==
    /\ pc = "simulating"
    /\ SimOnly
    /\ outcome' = "failure"
    /\ exc'     = e
    /\ fault'   = e.cls
    /\ tmpdir'  = TemporaryDirectory_exit(tmpdir)
    /\ pc'      = "raised"
    /\ UNCHANGED <<spec, runId, ddyFile, attempt, injected, endFile, dfs,
                   result>>

\* lines 85-99: idf.simulate() raises e
EngineFail(e) ==
    /\ pc = "simulating"
    /\ SimOnly
    /\ outcome' = "failure"
    /\ exc'     = e
    /\ dfs'     = ErrBranch(e)
    /\ tmpdir'  = TemporaryDirectory_exit(tmpdir)
    /\ pc'      = "assembled"
    /\ UNCHANGED <<spec, runId, ddyFile, attempt, injected, endFile, result,
                   fault>>

\* lines 85, 101-102: idf.simulate() returns, leaving ef as the end file
EngineOk(ef) ==
    /\ pc = "simulating"
    /\ SimOnly
    /\ outcome' = "success"
    /\ endFile' = ef
    /\ pc'      = "post"
    /\ UNCHANGED <<exc, spec, runId, ddyFile, attempt, tmpdir, injected, dfs,
                   result, fault>>

\* lines 103-114 (read_text at line 147 raises when the file is absent)
ReadResults ==
    /\ pc = "post"
    /\ SimOnly
    /\ IF endFile.exists
       THEN /\ dfs'    = ElseBranch(endFile.text)
            /\ pc'     = "assembled"
            /\ UNCHANGED fault
       ELSE /\ fault'  = "FileNotFoundError"
            /\ pc'     = "raised"
            /\ UNCHANGED dfs
    /\ tmpdir' = TemporaryDirectory_exit(tmpdir)
    /\ UNCHANGED <<exc, spec, runId, ddyFile, attempt, injected, outcome, endFile,
                   result>>

\* lines 116-118
Return ==
    /\ pc = "assembled"
    /\ SimOnly
    /\ result' = serialize_df_dict(dfs)
    /\ pc' = "returned"
    /\ UNCHANGED <<exc, spec, runId, ddyFile, attempt, tmpdir, injected, outcome,
                   endFile, dfs, fault>>

\* line 42, timeout="20m": the scheduler aborts the step; the abort unwinds
\* the with block when it lands inside it
Cancel ==
    /\ pc \in InWith \cup {"assembled"}
    /\ SimOnly
    /\ tmpdir' = IF pc \in InWith THEN TemporaryDirectory_exit(tmpdir) ELSE tmpdir
    /\ fault' = "Cancelled"
    /\ pc' = "cancelled"
    /\ UNCHANGED <<exc, spec, runId, ddyFile, attempt, injected, outcome, endFile,
                   dfs, result>>

\* line 42, retries=2: a raised or aborted attempt is run again from scratch
Retry ==
    /\ pc \in {"raised", "cancelled"}
    /\ SimOnly
    /\ attempt < Retries
    /\ attempt' = attempt + 1
    /\ pc' = "idle"
    /\ tmpdir' = "none"
    /\ injected' = <<>>
    /\ outcome' = "none"
    /\ exc' = NoExc
    /\ endFile' = NoEndFile
    /\ dfs' = <<>>
    /\ result' = <<>>
    /\ fault' = ""
    /\ UNCHANGED <<spec, runId, ddyFile>>

MetaNames  == {"zone", "climate", RunIdKey}
MetaValues == {None, "A"}

\* metadata fields: distinct names, any declared order
Metadata ==
    {m \in UNION {[1..n -> MetaNames \X MetaValues] : n \in 0..MaxMeta} :
        \A i, j \in 1..Len(m) : i # j => m[i][1] # m[j][1]}

Specs ==
    {<<<<"idf_path", "a.idf">>, <<"epw_path", "a.epw">>, <<"ddy_path", d>>>> \o m :
        d \in {None, "a.ddy"}, m \in Metadata}

DiagIdle  == dpc = "idle" /\ end_file = NoEndFile /\ err_df = <<>>
MergeIdle == /\ mpc = "idle" /\ ddyOk = TRUE /\ ddy = <<>> /\ idf = <<>>
             /\ idf0 = <<>> /\ cur = <<>>

SimStart(ss, rs, fs) ==
    /\ pc = "idle"
    /\ spec \in ss
    /\ runId \in rs
    /\ ddyFile \in fs
    /\ attempt = 0
    /\ tmpdir = "none"
    /\ injected = <<>>
    /\ outcome = "none"
    /\ exc = NoExc
    /\ endFile = NoEndFile
    /\ dfs = <<>>
    /\ result = <<>>
    /\ fault = ""

Init ==
    /\ SimStart(Specs, {"run-1", "run-2"}, {"ok", "malformed"})
    /\ DiagIdle
    /\ MergeIdle

Next ==
    \/ Enter
    \/ LoadPrimary
    \/ InjectDDY
    \/ StartEngine
    \/ \E e \in Exceptions : EngineFail(e)
    \/ \E ef \in EndFiles : EngineOk(ef)
    \/ ReadResults
    \/ Return
    \/ Cancel
    \/ Retry

Spec == Init /\ [][Next]_vars

---------------------------------------------------------------------------
(* Properties of the simulate step *)

\* C1: when idf.simulate() raises, the error does not leave the step: the
\* attempt goes on to return (unless the scheduler aborts it), and what it
\* returns is exactly one table, "err", of one row and one column holding
\* str(e).
C1_EngineErrorCaptured ==
    outcome = "failure" =>
        /\ fault \in {"", "Cancelled"}
        /\ pc \in {"assembled", "returned", "cancelled"}
        /\ pc = "returned" =>
             /\ DOMAIN result = {"err"}
             /\ Len(result["err"].index) = 1
             /\ Len(result["err"].columns) = 1
             /\ result["err"].data =
                  <<<<IF exc.args = <<>> THEN ""
                      ELSE IF exc.cls = "KeyError"
                           THEN "'" \o exc.args[1] \o "'" ELSE exc.args[1]>>>>

C1_Witness ==
    /\ pc = "returned" /\ outcome = "failure"
    /\ exc.cls = "KeyError" /\ exc.args = <<"boom">>
    /\ result["err"].data = <<<<"'boom'">>>>

\* C2: the only fault leaving the step is the malformed secondary document;
\* in particular an attempt whose engine run succeeded returns a table set,
\* also when the end file is absent.
C2_OnlyPreconditionEscapes ==
    /\ pc = "raised" => fault = "MalformedSecondary"
    /\ (outcome = "success" /\ pc \notin {"post", "cancelled"}) =>
           pc \in {"assembled", "returned"}

\* C3: every table the step produced carries the index key sequence that the
\* failure branch and the success branch produce for this spec and run
\* identifier, whatever the engine did.
C3_UniformIndex ==
    pc \in {"assembled", "returned"} =>
        \A e \in Exceptions, ef \in EndFiles :
            LET failure == ErrBranch(e)
                success == ElseBranch(ef.text)
                keysets == {failure[n].names : n \in DOMAIN failure}
                             \cup {success[n].names : n \in DOMAIN success}
            IN  /\ Cardinality(keysets) = 1
                /\ \A n \in DOMAIN dfs : dfs[n].names \in keysets
                /\ pc = "returned" =>
                     \A n \in DOMAIN result : result[n].index_names \in keysets

C3_Witness ==
    /\ pc = "returned" /\ outcome = "success"
    /\ Cardinality(DOMAIN result) = 2
    /\ \E i \in 1..Len(spec) : spec[i][2] = None

NonNull(s) == SelectSeq(s, LAMBDA kv : kv[2] # "None")

\* C4 as claimed: the keys are the non-null field names in declared order
\* followed by the key run_id, which holds the run identifier.
C4_RunIdKeyLast ==
    pc \in {"assembled", "returned"} =>
        \A n \in DOMAIN dfs :
            /\ dfs[n].names = Keys(NonNull(spec)) \o <<"run_id">>
            /\ dfs[n].index = <<Values(NonNull(spec)) \o <<runId>>>>

\* C4 as amended: the keys are the non-null field names in declared order;
\* the run identifier is held by the key workflow_run_id, which comes last
\* unless a non-null field of that name exists, whose value it then replaces
\* in place; null fields are no keys.
C4_IndexData ==
    pc \in {"assembled", "returned"} =>
        \A n \in DOMAIN dfs :
            LET nn    == NonNull(spec)
                names == dfs[n].names
                vals  == dfs[n].index[1]
                own   == \E i \in 1..Len(nn) : nn[i][1] = "workflow_run_id"
            IN  /\ names = IF own THEN Keys(nn)
                           ELSE Keys(nn) \o <<"workflow_run_id">>
                /\ Len(vals) = Len(names)
                /\ \A i \in 1..Len(names) :
                     vals[i] = IF names[i] = "workflow_run_id" THEN runId
                               ELSE nn[i][2]
                /\ \A i \in 1..Len(vals) : vals[i] # "None"

C4_Witness ==
    /\ pc = "assembled"
    /\ \E i \in 1..Len(spec) : spec[i][2] = None
    /\ \E i \in 1..Len(spec) : spec[i] = <<"workflow_run_id", "A">>
    /\ spec[Len(spec)][1] = "zone" /\ spec[Len(spec)][2] # None
    /\ \A n \in DOMAIN dfs : dfs[n].names[Len(dfs[n].names)] = "zone"

\* C6 as claimed: a success returns the performance tables and a table named
\* message_counts (one row; warning and severe count) and no err table; a
\* failure returns the err table alone.
C6_MessageCountsTable ==
    pc = "returned" =>
        /\ outcome = "success" =>
             /\ DOMAIN result = {PerfTableName, "message_counts"}
             /\ Len(result["message_counts"].data) = 1
             /\ Len(result["message_counts"].columns) = 2
        /\ outcome = "failure" => DOMAIN result = {"err"}

\* C6 as amended: the diagnostics table is named energyplus_message_counts.
C6_Shapes ==
    pc = "returned" =>
        /\ outcome \in {"success", "failure"}
        /\ outcome = "success" =>
             /\ DOMAIN result = {PerfTableName, "energyplus_message_counts"}
             /\ Len(result["energyplus_message_counts"].data) = 1
             /\ result["energyplus_message_counts"].columns
                  = <<"warnings", "severe">>
        /\ outcome = "failure" => DOMAIN result = {"err"}

C6_Witness ==
    /\ pc = "returned" /\ outcome = "success"
    /\ result["energyplus_message_counts"].data = <<<<7, 3>>>>

\* C10: an attempt that has ended, however it ended, no longer holds its
\* temporary directory, and the engine runs only while the directory is held.
C10_TmpdirReleased ==
    /\ pc \in {"assembled", "returned", "raised", "cancelled"} =>
           tmpdir = "released"
    /\ pc \in {"simulating", "post"} => tmpdir = "held"
    /\ outcome # "none" => tmpdir # "none"

C10_Witness ==
    /\ pc = "cancelled" /\ outcome = "success" /\ dfs = <<>>
    /\ tmpdir = "released"

---------------------------------------------------------------------------
(* _generate_error_warning_counts_df called on its own *)

\* A summary text is put together from single tokens and the two phrases
Parts ==
    {<<t>> : t \in Tokens}
        \cup {<<" ", "3", " ", SevereKw>>, <<" ", "7", " ", WarningKw>>}

RECURSIVE Texts(_)
Texts(n) ==
    IF n = 0 THEN {<<>>}
    ELSE LET shorter == Texts(n - 1)
         IN  shorter \cup {t \o q : t \in shorter, q \in Parts}

DiagIndex == <<<<"zone", "A">>, <<RunIdKey, "run-1">>>>

\* lines 146-161
CountsCall ==
    /\ dpc = "start"
    /\ IF end_file.exists
       THEN /\ err_df' = generate_error_warning_counts_df(end_file.text, DiagIndex)
            /\ dpc' = "done"
       ELSE /\ dpc' = "raised"
            /\ UNCHANGED err_df
    /\ UNCHANGED <<end_file, simVars, mergeVars>>

InitDiag ==
    /\ dpc = "start"
    /\ end_file \in {NoEndFile}
                      \cup {[exists |-> TRUE, text |-> t] : t \in Texts(MaxParts)}
    /\ err_df = <<>>
    /\ SimStart({<<<<"zone", "A">>>>}, {"run-1"}, {"ok"})
    /\ MergeIdle

NextDiag == CountsCall

SpecDiag == InitDiag /\ [][NextDiag]_vars

\* The values a count may take when its line is looked for anywhere in the
\* text: a run of digits after a whitespace character, followed by a
\* whitespace character and the word
LineValues(text, kw) ==
    {int(SubSeq(text, a, b)) : <<a, b>> \in
        {ab \in (1..Len(text)) \X (1..Len(text)) :
            /\ ab[1] <= ab[2]
            /\ ab[1] > 1 /\ IsSpace(text[ab[1] - 1])
            /\ \A i \in ab[1]..ab[2] : IsDigit(text[i])
            /\ ab[2] + 2 <= Len(text)
            /\ IsSpace(text[ab[2] + 1])
            /\ text[ab[2] + 2] = kw}}

\* C5: each count is the integer of a line "<n> Severe Errors" / "<n> Warning"
\* found wherever that line stands in the text, and 0 when no line matches.
C5_CountsFromAnyLine ==
    dpc = "done" =>
        LET text  == end_file.text
            found == [kw \in {SevereKw, WarningKw} |-> LineValues(text, kw)]
            got   == [kw \in {SevereKw, WarningKw} |->
                        IF kw = SevereKw THEN err_df.data[1][2]
                        ELSE err_df.data[1][1]]
        IN  \A kw \in {SevereKw, WarningKw} :
                IF found[kw] = {} THEN got[kw] = 0 ELSE got[kw] \in found[kw]

---------------------------------------------------------------------------
(* add_sizing_design_day *)

\* ddy.idfobjects.items(): the categories in the order the loop visits them
ObjTypes == <<"SIZINGPERIOD:DESIGNDAY", "SCHEDULE:FILE", "SITE:PRECIPITATION">>

\* obj.key as written in a document, and str.upper() of it
KeyOf(objtype) ==
    IF objtype = "SIZINGPERIOD:DESIGNDAY" THEN "SizingPeriod:DesignDay"
    ELSE IF objtype = "SCHEDULE:FILE" THEN "Schedule:File"
    ELSE "Site:Precipitation"

upper(key) ==
    IF key = "SizingPeriod:DesignDay" THEN "SIZINGPERIOD:DESIGNDAY"
    ELSE IF key = "Schedule:File" THEN "SCHEDULE:FILE"
    ELSE IF key = "Site:Precipitation" THEN "SITE:PRECIPITATION"
    ELSE key

Excluded == {"SITE:PRECIPITATION", "ROOFIRRIGATION", "SCHEDULE:FILE"}

rain == <<"r", "a", "i", "n">>

FileNames == {<<"a", ".", "c", "s", "v">>, <<"b", ".", "r", "a", "i", "n">>}

\* getattr(obj, "File_Name", default)
getattr_File_Name(obj, default) ==
    IF obj.has_File_Name THEN obj.File_Name ELSE default

Skipped_Inverted(obj) ==
    /\ upper(obj.key) \in Excluded
    /\ ~EndsWith(getattr_File_Name(obj, rain), rain)

Skipped_Never(obj) == FALSE

\* lines 179-183: the condition of the `continue`
Skipped(obj) ==
    /\ upper(obj.key) \in Excluded
    /\ EndsWith(getattr_File_Name(obj, rain), rain)

removeallidfobjects(doc, objtype) == [doc EXCEPT ![objtype] = <<>>]

addidfobject(doc, obj) ==
    [doc EXCEPT ![upper(obj.key)] = Append(@, obj)]

Replace_Upsert(doc, objtype, obj) == addidfobject(doc, obj)

\* lines 186-188
Replace(doc, objtype, obj) ==
    addidfobject(removeallidfobjects(doc, objtype), obj)

\* The objects a document of origin `who` may hold in a category; the
\* primary's schedule files are weather-linked ones
Objects(objtype, who, i) ==
    IF objtype = "SCHEDULE:FILE"
    THEN {[key |-> KeyOf(objtype), Name |-> <<who, i>>,
           has_File_Name |-> TRUE, File_Name |-> f] :
             f \in IF who = "idf" THEN {<<"a", ".", "c", "s", "v">>}
                   ELSE FileNames}
    ELSE {[key |-> KeyOf(objtype), Name |-> <<who, i>>,
           has_File_Name |-> FALSE, File_Name |-> <<>>]}

RECURSIVE ObjectLists(_, _, _)
ObjectLists(objtype, who, n) ==
    IF n = 0 THEN {<<>>}
    ELSE LET shorter == ObjectLists(objtype, who, n - 1)
         IN  shorter \cup
             {Append(q, o) : q \in {r \in shorter : Len(r) = n - 1},
                             o \in Objects(objtype, who, n)}

Documents(who) ==
    {(ObjTypes[1] :> a) @@ (ObjTypes[2] :> b) @@ (ObjTypes[3] :> c) :
        a \in ObjectLists(ObjTypes[1], who, MaxObjs),
        b \in ObjectLists(ObjTypes[2], who, MaxObjs),
        c \in ObjectLists(ObjTypes[3], who, MaxObjs)}

\* The loop position after <<c, o>>: the next object of the category, else the
\* first object of the next category that holds one (`if sequence:`)
After(c, o) ==
    IF c >= 1 /\ o < Len(ddy[ObjTypes[c]]) THEN <<c, o + 1>>
    ELSE LET later == {k \in (c + 1)..Len(ObjTypes) : ddy[ObjTypes[k]] # <<>>}
         IN  IF later = {} THEN <<>>
             ELSE <<CHOOSE k \in later : \A j \in later : k <= j, 1>>

\* lines 170-176
LoadDDY ==
    /\ mpc = "start"
    /\ IF ~ddyOk
       THEN /\ mpc' = "raised"
            /\ UNCHANGED cur
       ELSE /\ cur' = After(0, 0)
            /\ mpc' = IF After(0, 0) = <<>> THEN "done" ELSE "loop"
    /\ UNCHANGED <<ddyOk, ddy, idf, idf0, simVars, diagVars>>

\* lines 178-188: one turn of the loop
MergeObject ==
    /\ mpc = "loop"
    /\ LET objtype == ObjTypes[cur[1]]
           obj     == ddy[objtype][cur[2]]
       IN  idf' = IF Skipped(obj) THEN idf ELSE Replace(idf, objtype, obj)
    /\ cur' = After(cur[1], cur[2])
    /\ mpc' = IF After(cur[1], cur[2]) = <<>> THEN "done" ELSE "loop"
    /\ UNCHANGED <<ddyOk, ddy, idf0, simVars, diagVars>>

InitMerge ==
    /\ mpc = "start"
    /\ ddyOk \in BOOLEAN
    /\ ddy \in Documents("ddy")
    /\ idf \in Documents("idf")
    /\ idf0 = idf
    /\ cur = <<>>
    /\ SimStart({<<<<"zone", "A">>>>}, {"run-1"}, {"ok"})
    /\ DiagIdle

NextMerge == LoadDDY \/ MergeObject

SpecMerge == InitMerge /\ [][NextMerge]_vars

---------------------------------------------------------------------------
(* Properties of add_sizing_design_day *)

InExclusionSet(obj) ==
    obj.key \in {"Site:Precipitation", "RoofIrrigation", "Schedule:File"}

\* the object's file reference ends with the sentinel suffix
RainFile(obj) ==
    /\ obj.has_File_Name
    /\ Len(obj.File_Name) >= 4
    /\ [i \in 1..4 |-> obj.File_Name[Len(obj.File_Name) - 4 + i]]
         = <<"r", "a", "i", "n">>

\* the object is one the loop passes over: in the exclusion set, with a file
\* reference ending in the suffix or with no file reference at all
PassedOver(obj) ==
    InExclusionSet(obj) /\ (RainFile(obj) \/ ~obj.has_File_Name)

Visited == ddy[ObjTypes[cur[1]]][cur[2]]

ReplacedBy(obj) ==
    idf' = [idf EXCEPT ![ObjTypes[cur[1]]] = <<obj>>]

\* C7 as claimed: the loop skips an object (leaving the primary as it is)
\* exactly when its category is in the exclusion set and its file reference
\* does not end with the suffix; any other object replaces the primary's
\* objects of its category.
C7_SkipUnlessSentinel ==
    [][(mpc = "loop" /\ Visited.has_File_Name) =>
         IF InExclusionSet(Visited) /\ ~RainFile(Visited)
         THEN idf' = idf
         ELSE ReplacedBy(Visited)]_vars

\* C7 as amended: the loop skips an object exactly when its category is in
\* the exclusion set and its file reference ends with the suffix (an object
\* without a file reference counts as ending with it).
C7_SkipWhenSentinel ==
    [][mpc = "loop" =>
         IF PassedOver(Visited) THEN idf' = idf ELSE ReplacedBy(Visited)]_vars

C7_Witness ==
    /\ mpc = "done"
    /\ Len(ddy["SCHEDULE:FILE"]) = 2
    /\ ~RainFile(ddy["SCHEDULE:FILE"][1]) /\ RainFile(ddy["SCHEDULE:FILE"][2])
    /\ idf["SCHEDULE:FILE"] = <<ddy["SCHEDULE:FILE"][1]>>
    /\ idf0["SCHEDULE:FILE"] # <<>>

\* C8 as claimed: when the secondary holds an object of an excluded category
\* whose file reference ends with the suffix, the primary's objects of that
\* category are unchanged, whatever else the secondary holds.
C8_SentinelKeepsCategory ==
    mpc = "done" =>
        \A c \in 1..Len(ObjTypes) :
            (\E i \in 1..Len(ddy[ObjTypes[c]]) :
                InExclusionSet(ddy[ObjTypes[c]][i]) /\ RainFile(ddy[ObjTypes[c]][i]))
            => idf[ObjTypes[c]] = idf0[ObjTypes[c]]

\* C8 as amended: ... the primary's objects of that category are unchanged
\* provided every object the secondary holds in that category has a file
\* reference ending with the suffix, or none.
C8_AllSentinelKeepsCategory ==
    mpc = "done" =>
        \A c \in 1..Len(ObjTypes) :
            (/\ \E i \in 1..Len(ddy[ObjTypes[c]]) :
                   InExclusionSet(ddy[ObjTypes[c]][i]) /\ RainFile(ddy[ObjTypes[c]][i])
             /\ \A i \in 1..Len(ddy[ObjTypes[c]]) :
                   RainFile(ddy[ObjTypes[c]][i]) \/ ~ddy[ObjTypes[c]][i].has_File_Name)
            => idf[ObjTypes[c]] = idf0[ObjTypes[c]]

C8_Witness ==
    /\ mpc = "done"
    /\ Len(ddy["SCHEDULE:FILE"]) = 2
    /\ RainFile(ddy["SCHEDULE:FILE"][1]) /\ RainFile(ddy["SCHEDULE:FILE"][2])
    /\ Len(idf0["SCHEDULE:FILE"]) = 2
    /\ idf["SCHEDULE:FILE"] = idf0["SCHEDULE:FILE"]
    /\ ddy["SIZINGPERIOD:DESIGNDAY"] # <<>>

\* C9: after the merge a category for which the secondary holds an object
\* that was not skipped contains exactly the last such object and none of
\* the primary's; every other category is as it was.
C9_LastObjectWins ==
    mpc = "done" =>
        \A c \in 1..Len(ObjTypes) :
            LET kept == SelectSeq(ddy[ObjTypes[c]], LAMBDA o : ~PassedOver(o))
            IN  IF kept # <<>>
                THEN idf[ObjTypes[c]] = <<kept[Len(kept)]>>
                ELSE idf[ObjTypes[c]] = idf0[ObjTypes[c]]

C9_Witness ==
    /\ mpc = "done"
    /\ Len(ddy["SIZINGPERIOD:DESIGNDAY"]) = 2
    /\ Len(idf0["SIZINGPERIOD:DESIGNDAY"]) = 2
    /\ idf["SIZINGPERIOD:DESIGNDAY"] = <<ddy["SIZINGPERIOD:DESIGNDAY"][2]>>
    /\ ddy["SITE:PRECIPITATION"] # <<>>
    /\ idf["SITE:PRECIPITATION"] = idf0["SITE:PRECIPITATION"]
    /\ idf0["SITE:PRECIPITATION"] # <<>>

====
